---- MODULE Spec2Model ----
(***************************************************************************)
(* Model of the arbitrum-mcp-tools installer: the JSON and TOML config     *)
(* codecs (src/cli/clients/generators), the platform operations            *)
(* (src/cli/clients/base.ts), the path resolver (src/cli/utils/paths.ts)   *)
(* and the platform registry.                                              *)
(*                                                                         *)
(* A JavaScript value is a record [t, s, m]:                               *)
(*   t  the type: "undefined", "null", "bool", "num", "str", "arr", "obj"  *)
(*   s  the scalar's text, or the elements of an array                     *)
(*   m  the own string-keyed properties in insertion order, as a sequence  *)
(*      of <<key, value>> pairs (for an array: its non-index properties)   *)
(* A file is a record [kind, layout, tree]: kind is "missing", "corrupt"   *)
(* (text no parser accepts) or "text"; layout tells the text the codec's   *)
(* stringify emits ("emitted") from text written some other way ("hand");  *)
(* tree is what the parser returns for the text.                           *)
(***************************************************************************)
EXTENDS Integers, Sequences, FiniteSets, TLC

VARIABLES
  os,        \* what os.platform() returns
  homeDir,   \* what os.homedir() returns, as path segments
  cwd,       \* what process.cwd() returns, as path segments
  env,       \* process.env: APPDATA, USERPROFILE, LOCALAPPDATA (<<>> when unset)
  files,     \* the existing files: path -> [kind, layout, tree]
  dirs,      \* the existing directories
  readonly,  \* the paths the process may not write or create
  log,       \* the operations performed so far, with their results
  run,       \* the run of the command-line program: its position and answers
  query      \* the call of getContractEvents: its arguments, position and queries

vars == <<os, homeDir, cwd, env, files, dirs, readonly, log, run, query>>

\* Number of operations one behaviour performs.
MaxOps == 2

\* The largest searchDepth a call of getContractEvents is given.
MaxSearchDepth == 2

----------------------------------------------------------------------------
\* JavaScript values

Undefined == [t |-> "undefined", s |-> <<>>, m |-> <<>>]
Null == [t |-> "null", s |-> <<>>, m |-> <<>>]
Bool(b) == [t |-> "bool", s |-> <<b>>, m |-> <<>>]
Num(n) == [t |-> "num", s |-> <<n>>, m |-> <<>>]
Str(x) == [t |-> "str", s |-> <<x>>, m |-> <<>>]
Arr(elems) == [t |-> "arr", s |-> elems, m |-> <<>>]
Obj(props) == [t |-> "obj", s |-> <<>>, m |-> props]

IsContainer(v) == v.t \in {"arr", "obj"}

\* ToBoolean: what `!x` and `!!x` test.
Truthy(v) ==
  CASE v.t \in {"undefined", "null"} -> FALSE
    [] v.t = "bool" -> v.s = <<"true">>
    [] v.t = "num" -> v.s # <<"0">>
    [] v.t = "str" -> v.s # <<"">>
    [] OTHER -> TRUE

Keys(props) == {props[i][1] : i \in 1..Len(props)}

Lookup(props, k) ==
  IF k \in Keys(props)
    THEN props[CHOOSE i \in 1..Len(props) : props[i][1] = k][2]
    ELSE Undefined

\* v[k] throws a TypeError exactly when v is null or undefined.
GetThrows(v) == v.t \in {"undefined", "null"}

\* v[k] for a key that is neither an index nor a builtin property name.
Get(v, k) == IF IsContainer(v) THEN Lookup(v.m, k) ELSE Undefined

\* v[k] = x in strict mode (ES modules) throws a TypeError on every primitive.
SetThrows(v) == ~IsContainer(v)

PutProp(props, k, x) ==
  IF k \in Keys(props)
    THEN [i \in 1..Len(props) |-> IF props[i][1] = k THEN <<k, x>> ELSE props[i]]
    ELSE Append(props, <<k, x>>)

Set(v, k, x) == [v EXCEPT !.m = PutProp(v.m, k, x)]

\* delete v[k]
Delete(v, k) == [v EXCEPT !.m = SelectSeq(v.m, LAMBDA p : p[1] # k)]

\* Object.keys(v).length: the indices of an array count as keys.
ObjectKeysLength(v) == IF v.t = "arr" THEN Len(v.s) + Len(v.m) ELSE Len(v.m)

----------------------------------------------------------------------------
\* Serialisation

RECURSIVE Plain(_)
\* The value JSON.stringify / TOML.stringify put into the text: the non-index
\* properties of an array are not serialised.
Plain(v) ==
  IF v.t = "arr" THEN [v EXCEPT !.m = <<>>]
  ELSE IF v.t = "obj"
    THEN [v EXCEPT !.m = [i \in 1..Len(v.m) |-> <<v.m[i][1], Plain(v.m[i][2])>>]]
    ELSE v

IsTable(v) == v.t = "obj"

RECURSIVE TomlOrder(_)
\* TOML.stringify emits the inline keys of a table before its sub-tables.
TomlOrder(v) ==
  IF v.t # "obj" THEN v
  ELSE LET kids == [i \in 1..Len(v.m) |-> <<v.m[i][1], TomlOrder(v.m[i][2])>>]
       IN [v EXCEPT !.m = SelectSeq(kids, LAMBDA p : ~IsTable(p[2]))
                            \o SelectSeq(kids, LAMBDA p : IsTable(p[2]))]

Missing == [kind |-> "missing", layout |-> "none", tree |-> Undefined]
Corrupt == [kind |-> "corrupt", layout |-> "hand", tree |-> Undefined]
Text(layout, tree) == [kind |-> "text", layout |-> layout, tree |-> tree]

JsonStringify(config) == Text("emitted", Plain(config))
TomlStringify(config) == Text("emitted", TomlOrder(Plain(config)))

----------------------------------------------------------------------------
\* Platform registry

PlatformIdSeq ==
  <<"claude-desktop", "claude-code", "cursor", "windsurf", "vscode", "gemini", "codex">>

platforms ==
  [id \in {PlatformIdSeq[i] : i \in 1..Len(PlatformIdSeq)} |->
    CASE id = "claude-desktop" ->
           [name |-> "Claude Desktop", format |-> "json", configKey |-> "mcpServers",
            global |-> [darwin |-> <<"~", "Library", "Application Support", "Claude",
                                     "claude_desktop_config.json">>,
                        win32 |-> <<"%APPDATA%", "Claude", "claude_desktop_config.json">>,
                        linux |-> <<"~", ".config", "Claude", "claude_desktop_config.json">>],
            local |-> <<".claude", "mcp.json">>]
      [] id = "claude-code" ->
           [name |-> "Claude Code", format |-> "json", configKey |-> "mcpServers",
            global |-> [darwin |-> <<"~", ".claude.json">>,
                        win32 |-> <<"~", ".claude.json">>,
                        linux |-> <<"~", ".claude.json">>],
            local |-> <<".mcp.json">>]
      [] id = "cursor" ->
           [name |-> "Cursor", format |-> "json", configKey |-> "mcpServers",
            global |-> [darwin |-> <<"~", ".cursor", "mcp.json">>,
                        win32 |-> <<"~", ".cursor", "mcp.json">>,
                        linux |-> <<"~", ".cursor", "mcp.json">>],
            local |-> <<".cursor", "mcp.json">>]
      [] id = "windsurf" ->
           [name |-> "Windsurf", format |-> "json", configKey |-> "mcpServers",
            global |-> [darwin |-> <<"~", ".codeium", "windsurf", "mcp_config.json">>,
                        win32 |-> <<"%USERPROFILE%", ".codeium", "windsurf", "mcp_config.json">>,
                        linux |-> <<"~", ".codeium", "windsurf", "mcp_config.json">>],
            local |-> <<".windsurf", "mcp.json">>]
      [] id = "vscode" ->
           [name |-> "VS Code", format |-> "json", configKey |-> "servers",
            global |-> [darwin |-> <<"~", ".vscode", "mcp.json">>,
                        win32 |-> <<"~", ".vscode", "mcp.json">>,
                        linux |-> <<"~", ".vscode", "mcp.json">>],
            local |-> <<".vscode", "mcp.json">>]
      [] id = "gemini" ->
           [name |-> "Gemini CLI", format |-> "json", configKey |-> "mcpServers",
            global |-> [darwin |-> <<"~", ".gemini", "settings.json">>,
                        win32 |-> <<"~", ".gemini", "settings.json">>,
                        linux |-> <<"~", ".gemini", "settings.json">>],
            local |-> <<".gemini", "settings.json">>]
      [] id = "codex" ->
           [name |-> "OpenAI Codex", format |-> "toml", configKey |-> "mcp_servers",
            global |-> [darwin |-> <<"~", ".codex", "config.toml">>,
                        win32 |-> <<"~", ".codex", "config.toml">>,
                        linux |-> <<"~", ".codex", "config.toml">>],
            local |-> <<".codex", "config.toml">>]]

getPlatformIds == PlatformIdSeq

Range(seq) == {seq[i] : i \in 1..Len(seq)}

\* A descriptor outside the registry, with no global template for linux.
PartialDescriptor ==
  [name |-> "Fake Client", format |-> "json", configKey |-> "mcpServers",
   global |-> [darwin |-> <<"~", ".fakeclient", "mcp.json">>,
               win32 |-> <<"~", ".fakeclient", "mcp.json">>,
               linux |-> <<>>],
   local |-> <<".fakeclient", "mcp.json">>]

\* The descriptor a caller passes along with platformId.
Descriptor(platformId) ==
  IF platformId \in DOMAIN platforms THEN platforms[platformId] ELSE PartialDescriptor

----------------------------------------------------------------------------
\* Path resolver (paths are sequences of segments)

\* getPlatform without the fallback for other operating systems.
getPlatform_NoFallback == os

getPlatform == IF os \in {"darwin", "win32", "linux"} THEN os ELSE "linux"

\* String.replace(pattern, by): the first occurrence only.
ReplaceFirst(p, seg, by) ==
  IF \E i \in 1..Len(p) : p[i] = seg
    THEN LET i == CHOOSE j \in 1..Len(p) : p[j] = seg /\ \A k \in 1..(j - 1) : p[k] # seg
         IN SubSeq(p, 1, i - 1) \o by \o SubSeq(p, i + 1, Len(p))
    ELSE p

\* path.normalize drops the empty and the "." segments.
Normalize(p) == SelectSeq(p, LAMBDA seg : seg \notin {"", "."})

\* process.env.X || fallback
EnvOr(name, fallback) == IF env[name] # <<>> THEN env[name] ELSE fallback

\* resolvePath substituting the placeholders on every OS.
resolvePath_AnyOS(pathTemplate) ==
  LET r0 == IF pathTemplate # <<>> /\ pathTemplate[1] = "~"
              THEN homeDir \o Tail(pathTemplate)
              ELSE pathTemplate
  IN Normalize(ReplaceFirst(
                 ReplaceFirst(
                   ReplaceFirst(r0, "%APPDATA%", EnvOr("APPDATA", <<>>)),
                   "%USERPROFILE%", EnvOr("USERPROFILE", homeDir)),
                 "%LOCALAPPDATA%", EnvOr("LOCALAPPDATA", <<>>)))

resolvePath(pathTemplate) ==
  LET r0 == IF pathTemplate # <<>> /\ pathTemplate[1] = "~"
              THEN homeDir \o Tail(pathTemplate)
              ELSE pathTemplate
      r1 == IF getPlatform = "win32"
              THEN ReplaceFirst(
                     ReplaceFirst(
                       ReplaceFirst(r0, "%APPDATA%", EnvOr("APPDATA", <<>>)),
                       "%USERPROFILE%", EnvOr("USERPROFILE", homeDir)),
                     "%LOCALAPPDATA%", EnvOr("LOCALAPPDATA", <<>>))
              ELSE r0
  IN Normalize(r1)

getLocalConfigPath(localTemplate) == Normalize(cwd \o localTemplate)

\* getGlobalConfigPath that never throws.
GlobalPathThrows_Never(globalPaths) == FALSE

\* getGlobalConfigPath throws when the template of the current OS is falsy.
GlobalPathThrows(globalPaths) ==
  getPlatform \notin DOMAIN globalPaths \/ globalPaths[getPlatform] = <<>>

getGlobalConfigPath(globalPaths) == resolvePath(globalPaths[getPlatform])

\* getConfigPath resolving the global template whatever the scope.
getConfigPath_AlwaysGlobal(platform, scope) == getGlobalConfigPath(platform.global)

\* getConfigPath asking for the global template whatever the scope.
ConfigPathThrows_AnyScope(platform, scope) == GlobalPathThrows(platform.global)

ConfigPathThrows(platform, scope) ==
  scope = "global" /\ GlobalPathThrows(platform.global)

getConfigPath(platform, scope) ==
  IF scope = "global"
    THEN getGlobalConfigPath(platform.global)
    ELSE getLocalConfigPath(platform.local)

Dirname(p) == SubSeq(p, 1, Len(p) - 1)

Prefixes(p) == {SubSeq(p, 1, n) : n \in 0..Len(p)}

----------------------------------------------------------------------------
\* File system

existsSync(p) == p \in DOMAIN files

FileAt(p) == IF existsSync(p) THEN files[p] ELSE Missing

PutFile(fs, p, content) ==
  [q \in (DOMAIN fs) \cup {p} |-> IF q = p THEN content ELSE fs[q]]

\* ensureDirectoryExists without the mkdir.
ensureDirectoryExists_NoMkdir(filePath) == [threw |-> FALSE, dirs |-> dirs]

\* ensureDirectoryExists: mkdir -p of the parent unless it exists.
ensureDirectoryExists(filePath) ==
  LET dir == Dirname(filePath)
      throws == dir \notin dirs /\ (Prefixes(dir) \cap readonly # {})
  IN [threw |-> throws,
      dirs |-> IF throws THEN dirs ELSE dirs \cup Prefixes(dir)]

\* ensureDirectoryExists followed by fs.writeFileSync, which fails on a file that
\* may not be written and on creating a file in a directory that may not be.
WriteConfig(filePath, content) ==
  LET e == ensureDirectoryExists(filePath)
      throws == \/ e.threw
                \/ filePath \in readonly
                \/ ~existsSync(filePath) /\ Dirname(filePath) \in readonly
  IN [threw |-> throws,
      dirs |-> e.dirs,
      files |-> IF throws THEN files ELSE PutFile(files, filePath, content)]

----------------------------------------------------------------------------
\* JSON codec

EmptyObject == Obj(<<>>)

\* JSON.parse / TOML.parse throw on text that is not of the format.
ParseThrows(content) == content.kind = "corrupt"

JsonParse(content) == content.tree

\* readJsonConfig without the catch around JSON.parse.
readJsonConfig_NoCatch(filePath) ==
  IF existsSync(filePath) THEN JsonParse(files[filePath]) ELSE EmptyObject

readJsonConfig(filePath) ==
  IF existsSync(filePath) /\ ~ParseThrows(files[filePath])
    THEN JsonParse(files[filePath])
    ELSE EmptyObject

writeJsonConfig(filePath, config) == WriteConfig(filePath, JsonStringify(config))

\* generateMcpServerEntry embedding the environment's values in the entry.
generateMcpServerEntry_EmbedEnv ==
  Obj(<< <<"command", Str("npx")>>,
         <<"args", Arr(<<"-y", "arbitrum-mcp-tools", "serve">>)>>,
         <<"env", Obj(<< <<"ALCHEMY_API_KEY", Str(env.ALCHEMY_API_KEY)>>,
                         <<"ARBISCAN_API_KEY", Str(env.ARBISCAN_API_KEY)>>,
                         <<"STYLUS_PRIVATE_KEY", Str(env.STYLUS_PRIVATE_KEY)>> >>)>> >>)

generateMcpServerEntry ==
  Obj(<< <<"command", Str("npx")>>,
         <<"args", Arr(<<"-y", "arbitrum-mcp-tools", "serve">>)>> >>)

Unchanged(ret) == [ret |-> ret, files |-> files, dirs |-> dirs]

\* addArbitrumToJsonConfig assigning a new servers mapping instead of adding to
\* the one that is there.
addArbitrumToJsonConfig_NewServers(filePath, configKey) ==
  LET config == readJsonConfig(filePath)
  IN IF SetThrows(config) THEN Unchanged(FALSE)
     ELSE
       LET servers == Set(EmptyObject, "arbitrum", generateMcpServerEntry)
           w == writeJsonConfig(filePath, Set(config, configKey, servers))
       IN [ret |-> ~w.threw, files |-> w.files, dirs |-> w.dirs]

addArbitrumToJsonConfig(filePath, configKey) ==
  LET config == readJsonConfig(filePath)
  IN IF GetThrows(config) THEN Unchanged(FALSE)
     ELSE
       LET absent == ~Truthy(Get(config, configKey))
       IN IF absent /\ SetThrows(config) THEN Unchanged(FALSE)
          ELSE
            LET config1 == IF absent THEN Set(config, configKey, EmptyObject) ELSE config
                servers == Get(config1, configKey)
            IN IF SetThrows(servers) THEN Unchanged(FALSE)
               ELSE
                 LET config2 == Set(config1, configKey,
                                    Set(servers, "arbitrum", generateMcpServerEntry))
                     w == writeJsonConfig(filePath, config2)
                 IN [ret |-> ~w.threw, files |-> w.files, dirs |-> w.dirs]

\* removeArbitrumFromJsonConfig without the clean-up of an empty configKey.
removeArbitrumFromJsonConfig_NoCleanUp(filePath, configKey) ==
  IF ~existsSync(filePath) THEN Unchanged(FALSE)
  ELSE
    LET config == readJsonConfig(filePath)
    IN IF GetThrows(config) THEN Unchanged(FALSE)
       ELSE IF ~Truthy(Get(config, configKey)) THEN Unchanged(FALSE)
       ELSE
         LET servers == Get(config, configKey)
         IN IF ~Truthy(Get(servers, "arbitrum")) THEN Unchanged(FALSE)
            ELSE
              LET w == writeJsonConfig(filePath,
                                       Set(config, configKey, Delete(servers, "arbitrum")))
              IN [ret |-> ~w.threw, files |-> w.files, dirs |-> w.dirs]

\* removeArbitrumFromJsonConfig without the test for an "arbitrum" entry.
removeArbitrumFromJsonConfig_NoEntryTest(filePath, configKey) ==
  IF ~existsSync(filePath) THEN Unchanged(FALSE)
  ELSE
    LET config == readJsonConfig(filePath)
    IN IF GetThrows(config) THEN Unchanged(FALSE)
       ELSE IF ~Truthy(Get(config, configKey)) THEN Unchanged(FALSE)
       ELSE
         LET servers == Get(config, configKey)
         IN IF SetThrows(servers) THEN Unchanged(FALSE)
            ELSE
              LET servers1 == Delete(servers, "arbitrum")
                  config1 == IF ObjectKeysLength(servers1) = 0
                               THEN Delete(config, configKey)
                               ELSE Set(config, configKey, servers1)
                  w == writeJsonConfig(filePath, config1)
              IN [ret |-> ~w.threw, files |-> w.files, dirs |-> w.dirs]

\* removeArbitrumFromJsonConfig reading, and writing back, before its tests.
removeArbitrumFromJsonConfig_WriteFirst(filePath, configKey) ==
  LET config == readJsonConfig(filePath)
  IN IF GetThrows(config) THEN Unchanged(FALSE)
     ELSE
       LET servers == Get(config, configKey)
           found == Truthy(servers) /\ Truthy(Get(servers, "arbitrum"))
           servers1 == Delete(servers, "arbitrum")
           config1 == IF ~found THEN config
                      ELSE IF ObjectKeysLength(servers1) = 0
                        THEN Delete(config, configKey)
                        ELSE Set(config, configKey, servers1)
           w == writeJsonConfig(filePath, config1)
       IN [ret |-> found /\ ~w.threw, files |-> w.files, dirs |-> w.dirs]

removeArbitrumFromJsonConfig(filePath, configKey) ==
  IF ~existsSync(filePath) THEN Unchanged(FALSE)
  ELSE
    LET config == readJsonConfig(filePath)
    IN IF GetThrows(config) THEN Unchanged(FALSE)
       ELSE IF ~Truthy(Get(config, configKey)) THEN Unchanged(FALSE)
       ELSE
         LET servers == Get(config, configKey)
         IN IF ~Truthy(Get(servers, "arbitrum")) THEN Unchanged(FALSE)
            ELSE
              LET servers1 == Delete(servers, "arbitrum")
                  config1 == IF ObjectKeysLength(servers1) = 0
                               THEN Delete(config, configKey)
                               ELSE Set(config, configKey, servers1)
                  w == writeJsonConfig(filePath, config1)
              IN [ret |-> ~w.threw, files |-> w.files, dirs |-> w.dirs]

\* isArbitrumInstalledInJsonConfig testing configKey alone.
isArbitrumInstalledInJsonConfig_KeyOnly(filePath, configKey) ==
  IF ~existsSync(filePath) THEN FALSE
  ELSE
    LET config == readJsonConfig(filePath)
    IN IF GetThrows(config) THEN FALSE
       ELSE Truthy(Get(config, configKey))

isArbitrumInstalledInJsonConfig(filePath, configKey) ==
  IF ~existsSync(filePath) THEN FALSE
  ELSE
    LET config == readJsonConfig(filePath)
    IN IF GetThrows(config) THEN FALSE
       ELSE IF ~Truthy(Get(config, configKey)) THEN FALSE
       ELSE Truthy(Get(Get(config, configKey), "arbitrum"))

----------------------------------------------------------------------------
\* TOML codec

TomlParse(content) == content.tree

readTomlConfig(filePath) ==
  IF existsSync(filePath) /\ ~ParseThrows(files[filePath])
    THEN TomlParse(files[filePath])
    ELSE EmptyObject

writeTomlConfig(filePath, config) == WriteConfig(filePath, TomlStringify(config))

\* generateTomlMcpServerEntry with the server disabled.
generateTomlMcpServerEntry_Disabled ==
  Obj(<< <<"command", Str("npx")>>,
         <<"args", Arr(<<"-y", "arbitrum-mcp-tools", "serve">>)>>,
         <<"enabled", Bool("false")>>,
         <<"env_vars", Arr(<<"ALCHEMY_API_KEY", "ARBISCAN_API_KEY", "STYLUS_PRIVATE_KEY",
                             "STYLUS_PRIVATE_KEY_PATH", "STYLUS_KEYSTORE_PATH">>)>> >>)

generateTomlMcpServerEntry ==
  Obj(<< <<"command", Str("npx")>>,
         <<"args", Arr(<<"-y", "arbitrum-mcp-tools", "serve">>)>>,
         <<"enabled", Bool("true")>>,
         <<"env_vars", Arr(<<"ALCHEMY_API_KEY", "ARBISCAN_API_KEY", "STYLUS_PRIVATE_KEY",
                             "STYLUS_PRIVATE_KEY_PATH", "STYLUS_KEYSTORE_PATH">>)>> >>)

\* addArbitrumToTomlConfig returning true from its catch block.
addArbitrumToTomlConfig_IgnoreWriteError(filePath, configKey) ==
  LET config == readTomlConfig(filePath)
  IN IF GetThrows(config) THEN Unchanged(TRUE)
     ELSE
       LET absent == ~Truthy(Get(config, configKey))
       IN IF absent /\ SetThrows(config) THEN Unchanged(TRUE)
          ELSE
            LET config1 == IF absent THEN Set(config, configKey, EmptyObject) ELSE config
                servers == Get(config1, configKey)
            IN IF SetThrows(servers) THEN Unchanged(TRUE)
               ELSE
                 LET config2 == Set(config1, configKey,
                                    Set(servers, "arbitrum", generateTomlMcpServerEntry))
                     w == writeTomlConfig(filePath, config2)
                 IN [ret |-> TRUE, files |-> w.files, dirs |-> w.dirs]

addArbitrumToTomlConfig(filePath, configKey) ==
  LET config == readTomlConfig(filePath)
  IN IF GetThrows(config) THEN Unchanged(FALSE)
     ELSE
       LET absent == ~Truthy(Get(config, configKey))
       IN IF absent /\ SetThrows(config) THEN Unchanged(FALSE)
          ELSE
            LET config1 == IF absent THEN Set(config, configKey, EmptyObject) ELSE config
                servers == Get(config1, configKey)
            IN IF SetThrows(servers) THEN Unchanged(FALSE)
               ELSE
                 LET config2 == Set(config1, configKey,
                                    Set(servers, "arbitrum", generateTomlMcpServerEntry))
                     w == writeTomlConfig(filePath, config2)
                 IN [ret |-> ~w.threw, files |-> w.files, dirs |-> w.dirs]

\* removeArbitrumFromTomlConfig without the clean-up of an empty configKey.
removeArbitrumFromTomlConfig_NoCleanUp(filePath, configKey) ==
  IF ~existsSync(filePath) THEN Unchanged(FALSE)
  ELSE
    LET config == readTomlConfig(filePath)
    IN IF GetThrows(config) THEN Unchanged(FALSE)
       ELSE IF ~Truthy(Get(config, configKey)) THEN Unchanged(FALSE)
       ELSE
         LET servers == Get(config, configKey)
         IN IF ~Truthy(Get(servers, "arbitrum")) THEN Unchanged(FALSE)
            ELSE
              LET w == writeTomlConfig(filePath,
                                       Set(config, configKey, Delete(servers, "arbitrum")))
              IN [ret |-> ~w.threw, files |-> w.files, dirs |-> w.dirs]

removeArbitrumFromTomlConfig(filePath, configKey) ==
  IF ~existsSync(filePath) THEN Unchanged(FALSE)
  ELSE
    LET config == readTomlConfig(filePath)
    IN IF GetThrows(config) THEN Unchanged(FALSE)
       ELSE IF ~Truthy(Get(config, configKey)) THEN Unchanged(FALSE)
       ELSE
         LET servers == Get(config, configKey)
         IN IF ~Truthy(Get(servers, "arbitrum")) THEN Unchanged(FALSE)
            ELSE
              LET servers1 == Delete(servers, "arbitrum")
                  config1 == IF ObjectKeysLength(servers1) = 0
                               THEN Delete(config, configKey)
                               ELSE Set(config, configKey, servers1)
                  w == writeTomlConfig(filePath, config1)
              IN [ret |-> ~w.threw, files |-> w.files, dirs |-> w.dirs]

isArbitrumInstalledInTomlConfig(filePath, configKey) ==
  IF ~existsSync(filePath) THEN FALSE
  ELSE
    LET config == readTomlConfig(filePath)
    IN IF GetThrows(config) THEN FALSE
       ELSE IF ~Truthy(Get(config, configKey)) THEN FALSE
       ELSE Truthy(Get(Get(config, configKey), "arbitrum"))

----------------------------------------------------------------------------
\* Platform operations

\* The value of an operation whose getConfigPath call threw: the error leaves
\* the operation before its try block is entered.
Raised == [threw |-> TRUE, success |-> FALSE, path |-> <<>>, error |-> "Unsupported platform",
           files |-> files, dirs |-> dirs]

\* The value an operation returns from its try block. The codec functions catch
\* every error themselves, so the catch of the operation is never entered and
\* no result carries an error message.
Returned(configPath, r) ==
  [threw |-> FALSE, success |-> r.ret, path |-> configPath, error |-> "",
   files |-> r.files, dirs |-> r.dirs]

installToPlatform(platformId, platform, scope) ==
  IF ConfigPathThrows(platform, scope) THEN Raised
  ELSE LET configPath == getConfigPath(platform, scope)
       IN Returned(configPath,
                   IF platform.format = "json"
                     THEN addArbitrumToJsonConfig(configPath, platform.configKey)
                     ELSE addArbitrumToTomlConfig(configPath, platform.configKey))

uninstallFromPlatform(platformId, platform, scope) ==
  IF ConfigPathThrows(platform, scope) THEN Raised
  ELSE LET configPath == getConfigPath(platform, scope)
       IN Returned(configPath,
                   IF platform.format = "json"
                     THEN removeArbitrumFromJsonConfig(configPath, platform.configKey)
                     ELSE removeArbitrumFromTomlConfig(configPath, platform.configKey))

isPlatformInstalled(platformId, platform, scope) ==
  IF ConfigPathThrows(platform, scope) THEN Raised
  ELSE LET configPath == getConfigPath(platform, scope)
       IN Returned(configPath,
                   Unchanged(IF platform.format = "json"
                               THEN isArbitrumInstalledInJsonConfig(configPath, platform.configKey)
                               ELSE isArbitrumInstalledInTomlConfig(configPath, platform.configKey)))

\* The template literal `${process.env.X}/...`
EnvText(name) == IF env[name] # <<>> THEN env[name] ELSE <<"undefined">>

directoryExists(path) == path \in dirs

fileExists(path) == existsSync(path)

isAppInstalled(appName) ==
  CASE appName = "claude-desktop" ->
         IF getPlatform = "darwin"
           THEN \/ directoryExists(<<"Applications", "Claude.app">>)
                \/ fileExists(homeDir \o <<"Library", "Application Support", "Claude",
                                            "claude_desktop_config.json">>)
         ELSE IF getPlatform = "win32"
           THEN \/ directoryExists(EnvText("LOCALAPPDATA") \o <<"Programs", "Claude">>)
                \/ fileExists(EnvText("APPDATA") \o <<"Claude", "claude_desktop_config.json">>)
         ELSE fileExists(homeDir \o <<".config", "Claude", "claude_desktop_config.json">>)
    [] appName = "claude-code" ->
         \/ fileExists(homeDir \o <<".claude.json">>)
         \/ fileExists(homeDir \o <<".claude", "settings.json">>)
    [] appName = "cursor" ->
         \/ getPlatform = "darwin" /\ directoryExists(<<"Applications", "Cursor.app">>)
         \/ directoryExists(homeDir \o <<".cursor">>)
    [] appName = "windsurf" -> directoryExists(homeDir \o <<".codeium", "windsurf">>)
    [] appName = "vscode" ->
         \/ getPlatform = "darwin"
              /\ directoryExists(<<"Applications", "Visual Studio Code.app">>)
         \/ directoryExists(homeDir \o <<".vscode">>)
    [] appName = "gemini" -> directoryExists(homeDir \o <<".gemini">>)
    [] appName = "codex" -> directoryExists(homeDir \o <<".codex">>)
    [] OTHER -> FALSE

isPlatformDetected(platformId) == isAppInstalled(platformId)

----------------------------------------------------------------------------
\* Initial file contents

OldEntry ==
  Obj(<< <<"command", Str("node")>>,
         <<"args", Arr(<<"build/index.js", "--verbose">>)>>,
         <<"env", Obj(<< <<"ALCHEMY_API_KEY", Str("secret")>> >>)>> >>)

OtherEntry ==
  Obj(<< <<"command", Str("uvx")>>, <<"args", Arr(<<"other-server">>)>> >>)

\* TOML has no null.
Nulls(format) == IF format = "json" THEN {Null} ELSE {}

\* What a document may hold under "arbitrum" (Undefined: no such key).
ArbitrumValues(format) == {Undefined, OldEntry, Bool("false")} \cup Nulls(format)

Prop(k, v) == IF v = Undefined THEN <<>> ELSE << <<k, v>> >>

ServerMaps(format) ==
  {Obj(Prop("arbitrum", a) \o Prop("other", o)) :
     a \in ArbitrumValues(format), o \in {Undefined, OtherEntry}}

\* What a document may hold under configKey (Undefined: no such key).
KeyValues(format) ==
  ServerMaps(format) \cup {Undefined, Str(""), Str("x"), Num("5"), Arr(<<>>)} \cup Nulls(format)

\* The values a parser can return: for TOML always a table.
ParsedValues(format, configKey) ==
  {Obj(Prop("theme", t) \o Prop(configKey, kv)) :
     t \in {Undefined, Str("dark")}, kv \in KeyValues(format)}
  \cup (IF format = "json" THEN {Null, Num("5"), Arr(<<>>)} ELSE {})

InitContents(format, configKey) ==
  {Missing, Corrupt} \cup {Text("hand", v) : v \in ParsedValues(format, configKey)}

\* The platforms and scopes the operations are exercised on.
PlatformInputs == {"cursor", "vscode", "codex"}
Scopes == {"global", "local"}

NoFiles == [p \in {} |-> Missing]

BaseDirs == Prefixes(homeDir) \cup Prefixes(cwd)

\* The environment variables the path templates read, unset.
PathEnv == [APPDATA |-> <<>>, USERPROFILE |-> <<>>, LOCALAPPDATA |-> <<>>]

\* The environment variables the server reads, unset ("").
NoSecrets ==
  [ALCHEMY_API_KEY |-> "", ARBISCAN_API_KEY |-> "", STYLUS_PRIVATE_KEY |-> "",
   STYLUS_PRIVATE_KEY_PATH |-> "", STYLUS_KEYSTORE_PATH |-> ""]

AllSecrets ==
  [ALCHEMY_API_KEY |-> "alchemy-key", ARBISCAN_API_KEY |-> "arbiscan-key",
   STYLUS_PRIVATE_KEY |-> "0xprivatekey", STYLUS_PRIVATE_KEY_PATH |-> "/keys/stylus.key",
   STYLUS_KEYSTORE_PATH |-> "/keys/keystore.json"]

SecretInputs ==
  {NoSecrets, AllSecrets,
   [NoSecrets EXCEPT !.ALCHEMY_API_KEY = "alchemy-key"],
   [NoSecrets EXCEPT !.STYLUS_PRIVATE_KEY = "0xprivatekey"]}

\* The config file of one of the targets holds arbitrary content, every other
\* file does not exist; the file may be one the process cannot write.
InitFilesOf(Pids, Focus, protected) ==
  \E pid \in Pids, scope \in Focus :
    LET path == getConfigPath(Descriptor(pid), scope)
    IN \E c \in InitContents(Descriptor(pid).format, Descriptor(pid).configKey),
          dirExists \in BOOLEAN :
         /\ c # Missing => dirExists
         /\ files = IF c = Missing THEN NoFiles ELSE PutFile(NoFiles, path, c)
         /\ dirs = BaseDirs \cup (IF dirExists THEN Prefixes(Dirname(path)) ELSE {})
         /\ readonly \in IF protected THEN {{path}, {Dirname(path)}} ELSE {{}}

InitFiles(Focus) == InitFilesOf(PlatformInputs, Focus, FALSE)

\* No call of getContractEvents.
NoQuery ==
  [pc |-> "idle", fromBlock |-> <<>>, toBlock |-> <<>>, maxBlocks |-> 1,
   autoDiscover |-> FALSE, searchDepth |-> 0, currentBlock |-> 0,
   firstBlock |-> <<>>, i |-> 0,
   found |-> FALSE, error |-> FALSE, queries |-> <<>>, queriedRanges |-> <<>>]

\* No command-line run.
Idle ==
  [pc |-> "idle", command |-> "", exitCode |-> -1, detected |-> {}, offered |-> <<>>,
   selected |-> <<>>, confirmed |-> FALSE, queue |-> <<>>,
   successCount |-> 0, failCount |-> 0]

Init ==
  /\ os = "linux"
  /\ homeDir = <<"home", "u">>
  /\ cwd = <<"work", "proj">>
  /\ env = PathEnv @@ NoSecrets
  /\ log = <<>>
  /\ run = Idle
  /\ query = NoQuery
  /\ InitFiles(Scopes)

----------------------------------------------------------------------------
\* Operations

Entry(op, pid, scope, r) ==
  [op |-> op, platformId |-> pid, scope |-> scope,
   threw |-> r.threw, success |-> r.success, path |-> r.path, error |-> r.error,
   before |-> FileAt(r.path),
   dirBefore |-> Dirname(r.path) \in dirs,
   after |-> IF r.path \in DOMAIN r.files THEN r.files[r.path] ELSE Missing,
   dirAfter |-> Dirname(r.path) \in r.dirs,
   wrote |-> r.files # files]

\* The effect of an operation with result r, and its record in the log.
Perform(op, pid, scope, r) ==
  /\ files' = r.files
  /\ dirs' = r.dirs
  /\ log' = Append(log, Entry(op, pid, scope, r))
  /\ UNCHANGED <<os, homeDir, cwd, env, readonly, query>>

Install(pid, scope) ==
  /\ Len(log) < MaxOps
  /\ Perform("install", pid, scope, installToPlatform(pid, Descriptor(pid), scope))
  /\ UNCHANGED run

Uninstall(pid, scope) ==
  /\ Len(log) < MaxOps
  /\ Perform("uninstall", pid, scope, uninstallFromPlatform(pid, Descriptor(pid), scope))
  /\ UNCHANGED run

IsInstalled(pid, scope) ==
  /\ Len(log) < MaxOps
  /\ Perform("isInstalled", pid, scope, isPlatformInstalled(pid, Descriptor(pid), scope))
  /\ UNCHANGED run

Next ==
  \/ \E pid \in PlatformInputs, scope \in Scopes : Install(pid, scope)
  \/ \E pid \in PlatformInputs, scope \in Scopes : Uninstall(pid, scope)
  \/ \E pid \in PlatformInputs, scope \in Scopes : IsInstalled(pid, scope)

Spec == Init /\ [][Next]_vars

\* The public operations of the platform layer on a registered descriptor and
\* on one with no global template for the OS.
DescriptorInputs == {"cursor", "fakeclient"}

GetConfigPath(pid, scope) ==
  /\ Len(log) < MaxOps
  /\ Perform("getConfigPath", pid, scope,
             IF ConfigPathThrows(Descriptor(pid), scope) THEN Raised
             ELSE Returned(getConfigPath(Descriptor(pid), scope), Unchanged(TRUE)))
  /\ UNCHANGED run

IsDetected(pid) ==
  /\ Len(log) < MaxOps
  /\ Perform("isDetected", pid, "none",
             Returned(<<>>, Unchanged(isPlatformDetected(pid))))
  /\ UNCHANGED run

InitDesc ==
  /\ os = "linux"
  /\ homeDir = <<"home", "u">>
  /\ cwd = <<"work", "proj">>
  /\ env = PathEnv @@ NoSecrets
  /\ log = <<>>
  /\ run = Idle
  /\ query = NoQuery
  /\ InitFilesOf(DescriptorInputs, {"local"}, FALSE)

NextDesc ==
  \/ \E pid \in DescriptorInputs, scope \in Scopes : GetConfigPath(pid, scope)
  \/ \E pid \in DescriptorInputs, scope \in Scopes : Install(pid, scope)
  \/ \E pid \in DescriptorInputs, scope \in Scopes : Uninstall(pid, scope)
  \/ \E pid \in DescriptorInputs, scope \in Scopes : IsInstalled(pid, scope)
  \/ \E pid \in DescriptorInputs : IsDetected(pid)

SpecDesc == InitDesc /\ [][NextDesc]_vars

\* The operations under environments that set the server's variables.
EnvPlatforms == {"cursor", "codex"}

InitEnv ==
  /\ os = "linux"
  /\ homeDir = <<"home", "u">>
  /\ cwd = <<"work", "proj">>
  /\ env \in {PathEnv @@ secrets : secrets \in SecretInputs}
  /\ log = <<>>
  /\ run = Idle
  /\ query = NoQuery
  /\ InitFilesOf(EnvPlatforms, {"global"}, FALSE)

NextEnv ==
  \/ \E pid \in EnvPlatforms, scope \in Scopes : Install(pid, scope)
  \/ \E pid \in EnvPlatforms, scope \in Scopes : Uninstall(pid, scope)
  \/ \E pid \in EnvPlatforms, scope \in Scopes : IsInstalled(pid, scope)

SpecEnv == InitEnv /\ [][NextEnv]_vars

\* The operations with the working directory inside or at the home directory,
\* on a platform whose local template repeats its global one and on one whose
\* local template does not.
ScopePlatforms == {"cursor", "windsurf"}

InitScope ==
  /\ os = "linux"
  /\ homeDir = <<"home", "u">>
  /\ cwd \in {<<"home", "u", "proj">>, <<"home", "u">>}
  /\ env = PathEnv @@ NoSecrets
  /\ log = <<>>
  /\ run = Idle
  /\ query = NoQuery
  /\ InitFilesOf(ScopePlatforms, Scopes, FALSE)

NextScope ==
  \/ \E pid \in ScopePlatforms, scope \in Scopes : Install(pid, scope)
  \/ \E pid \in ScopePlatforms, scope \in Scopes : Uninstall(pid, scope)
  \/ \E pid \in ScopePlatforms, scope \in Scopes : IsInstalled(pid, scope)

SpecScope == InitScope /\ [][NextScope]_vars

\* The path functions on every OS, with the Windows variables set or unset.
OsInputs == {"darwin", "win32", "linux", "freebsd"}

PathEnvInputs ==
  {[APPDATA |-> a, USERPROFILE |-> u, LOCALAPPDATA |-> l] :
     a \in {<<>>, <<"C:", "Users", "u", "AppData", "Roaming">>},
     u \in {<<>>, <<"C:", "Users", "u">>},
     l \in {<<>>, <<"C:", "Users", "u", "AppData", "Local">>}}

TemplateInputs ==
  {<<"~", ".cursor", "mcp.json">>,
   <<"%APPDATA%", "Claude", "claude_desktop_config.json">>,
   <<"%USERPROFILE%", ".codeium", "windsurf", "mcp_config.json">>,
   <<"%LOCALAPPDATA%", "Programs", "Claude">>,
   <<"~", "%LOCALAPPDATA%", "x">>,
   <<"etc", "~", "x">>,
   <<".", "a", "", "b">>}

ResolvePath(pathTemplate) ==
  /\ Len(log) < MaxOps
  /\ Perform("resolvePath", "", "none",
             Returned(resolvePath(pathTemplate), Unchanged(TRUE)))
  /\ UNCHANGED run

InitPaths ==
  /\ os \in OsInputs
  /\ homeDir = <<"home", "u">>
  /\ cwd = <<"work", "proj">>
  /\ env \in {e @@ NoSecrets : e \in PathEnvInputs}
  /\ log = <<>>
  /\ run = Idle
  /\ query = NoQuery
  /\ files = NoFiles
  /\ dirs = BaseDirs
  /\ readonly = {}

NextPaths ==
  \/ \E pid \in Range(getPlatformIds), scope \in Scopes : GetConfigPath(pid, scope)
  \/ \E pathTemplate \in TemplateInputs : ResolvePath(pathTemplate)

SpecPaths == InitPaths /\ [][NextPaths]_vars

----------------------------------------------------------------------------
\* The command-line program

\* The elements of seq that are in S, in the order of seq: what the checkbox
\* prompt returns for the ticked choices.
Pick(seq, S) == SelectSeq(seq, LAMBDA x : x \in S)

\* The install wizard offering the detected platforms only.
installChoices_DetectedOnly == SelectSeq(getPlatformIds, isPlatformDetected)

\* The choices of the install wizard: every platform id; detection and
\* installation only change the label.
installChoices == getPlatformIds

\* installedPlatforms of the uninstall wizard: per id, global then local.
installedPlatforms ==
  LET n == Len(getPlatformIds)
      all == [i \in 1..(2 * n) |->
                <<getPlatformIds[(i + 1) \div 2], IF i % 2 = 1 THEN "global" ELSE "local">>]
  IN SelectSeq(all, LAMBDA t : isPlatformInstalled(t[1], platforms[t[1]], t[2]).success)

\* A loop that ends at the first platform that fails.
NextInLoop_StopOnFailure(queue, r) == IF r.success THEN Tail(queue) ELSE <<>>

\* for (const item of selection): what is left after the item at the head.
NextInLoop(queue, r) == Tail(queue)

\* A command that exits with 1 when it configured no platform.
CommandExit_ByResults(successCount) == IF successCount > 0 THEN 0 ELSE 1

\* installCommand and uninstallCommand return normally after their summary.
CommandExit(successCount) == 0

KnownCommands ==
  {"install", "uninstall", "list", "--version", "-v", "--help", "-h", "undefined"}

\* The commands given on the command line ("undefined": none).
CommandInputs == KnownCommands \cup {"serve", "remove"}

\* The targets the wizards are exercised on.
CliTargets == PlatformInputs \X Scopes

DetectedNow == {id \in Range(getPlatformIds) : isPlatformDetected(id)}

Started(command, offered, selected, confirmed) ==
  [pc |-> IF confirmed /\ selected # <<>> THEN "loop" ELSE "done",
   command |-> command,
   exitCode |-> IF confirmed /\ selected # <<>> THEN -1 ELSE 0,
   detected |-> DetectedNow, offered |-> offered,
   selected |-> selected, confirmed |-> confirmed,
   queue |-> IF confirmed THEN selected ELSE <<>>,
   successCount |-> 0, failCount |-> 0]

\* installCommand up to its loop: the platforms ticked, the scope, the answer
\* to the confirmation.
CliInstall(ticked, scope, proceed) ==
  /\ run.pc = "idle"
  /\ ticked \subseteq Range(installChoices)
  /\ Cardinality(ticked) <= MaxOps
  /\ LET selectedPlatforms == Pick(installChoices, ticked)
         selection == [i \in 1..Len(selectedPlatforms) |-> <<selectedPlatforms[i], scope>>]
     IN run' = Started("install", installChoices, selection, proceed)
  /\ UNCHANGED <<os, homeDir, cwd, env, files, dirs, readonly, log, query>>

\* uninstallCommand up to its loop: the installations ticked, "Select All",
\* the answer to the confirmation.
CliUninstall(ticked, all, proceed) ==
  /\ run.pc = "idle"
  /\ ticked \subseteq Range(installedPlatforms)
  /\ LET finalSelection == IF all THEN installedPlatforms
                           ELSE Pick(installedPlatforms, ticked)
     IN /\ Len(finalSelection) <= MaxOps
        /\ run' = IF installedPlatforms = <<>>
                    THEN Started("uninstall", <<>>, <<>>, FALSE)
                    ELSE Started("uninstall", installedPlatforms, finalSelection, proceed)
  /\ UNCHANGED <<os, homeDir, cwd, env, files, dirs, readonly, log, query>>

\* main for every other command: list, version and help return, an unknown
\* command exits with 1.
CliOther(command) ==
  /\ run.pc = "idle"
  /\ command \notin {"install", "uninstall"}
  /\ run' = [Started(command, <<>>, <<>>, FALSE) EXCEPT
               !.exitCode = IF command \in KnownCommands THEN 0 ELSE 1]
  /\ UNCHANGED <<os, homeDir, cwd, env, files, dirs, readonly, log, query>>

\* One iteration of the loop of installCommand or uninstallCommand, and after
\* the last one the summary and the return. An exception leaves the loop and
\* reaches the catch of main.
CliStep ==
  /\ run.pc = "loop"
  /\ LET item == Head(run.queue)
         platformId == item[1]
         scope == item[2]
         r == IF run.command = "install"
                THEN installToPlatform(platformId, platforms[platformId], scope)
                ELSE uninstallFromPlatform(platformId, platforms[platformId], scope)
         rest == NextInLoop(run.queue, r)
         successCount == run.successCount + (IF r.success THEN 1 ELSE 0)
         failCount == run.failCount
                        + (IF run.command = "uninstall" /\ ~r.success THEN 1 ELSE 0)
     IN /\ Perform(run.command, platformId, scope, r)
        /\ run' = IF r.threw
                    THEN [run EXCEPT !.pc = "done", !.exitCode = 1, !.queue = <<>>]
                    ELSE [run EXCEPT !.pc = IF rest = <<>> THEN "done" ELSE "loop",
                                     !.exitCode = IF rest = <<>> THEN CommandExit(successCount)
                                                                 ELSE -1,
                                     !.queue = rest,
                                     !.successCount = successCount,
                                     !.failCount = failCount]

\* What the install of this package leaves in a file that did not exist.
InstalledContent(pid) ==
  LET entry == IF platforms[pid].format = "json" THEN generateMcpServerEntry
                                                  ELSE generateTomlMcpServerEntry
      config == Obj(<< <<platforms[pid].configKey, Obj(<< <<"arbitrum", entry>> >>)>> >>)
  IN IF platforms[pid].format = "json" THEN JsonStringify(config) ELSE TomlStringify(config)

\* Some of the targets are installed, the directories of the applications
\* exist or not, the process runs in one of the working directories, and one
\* config file may be write-protected.
InitCliAt(workingDirs, protected) ==
  /\ os = "linux"
  /\ homeDir = <<"home", "u">>
  /\ cwd \in workingDirs
  /\ env = PathEnv @@ NoSecrets
  /\ log = <<>>
  /\ run = Idle
  /\ query = NoQuery
  /\ \E installed \in SUBSET CliTargets, apps \in {{}, PlatformInputs} :
       LET PathOf(t) == getConfigPath(platforms[t[1]], t[2])
           paths == {PathOf(t) : t \in installed}
       IN /\ files = [q \in paths |->
                        InstalledContent((CHOOSE t \in installed : PathOf(t) = q)[1])]
          /\ dirs = BaseDirs
                      \cup UNION {Prefixes(Dirname(q)) : q \in paths}
                      \cup UNION {Prefixes(Dirname(PathOf(<<pid, "global">>))) : pid \in apps}
  /\ readonly \in IF protected
                    THEN {{}, {getConfigPath(platforms["cursor"], "global")},
                              {getConfigPath(platforms["codex"], "local")}}
                    ELSE {{}}

InitCli == InitCliAt({<<"work", "proj">>}, TRUE)

\* The wizards run in a project directory or in the home directory; every
\* file can be written.
InitCliHome == InitCliAt({<<"work", "proj">>, <<"home", "u">>}, FALSE)

NextCli ==
  \/ \E ticked \in SUBSET PlatformInputs, scope \in Scopes, proceed \in BOOLEAN :
       CliInstall(ticked, scope, proceed)
  \/ \E ticked \in SUBSET CliTargets, all \in BOOLEAN, proceed \in BOOLEAN :
       CliUninstall(ticked, all, proceed)
  \/ \E command \in CommandInputs : CliOther(command)
  \/ CliStep

SpecCli == InitCli /\ [][NextCli]_vars

SpecCliHome == InitCliHome /\ [][NextCli]_vars

----------------------------------------------------------------------------
\* getContractEvents

\* The most blocks the log API takes in one query.
ApiMaxBlocks == 250

Min(a, b) == IF a < b THEN a ELSE b

Max(a, b) == IF a > b THEN a ELSE b

safeMaxBlocks(maxBlocks) == Min(maxBlocks, ApiMaxBlocks)

\* An optional number is <<>> when omitted; `if (x)` is false for an omitted
\* number and for 0.
TruthyNumber(x) == x # <<>> /\ x[1] # 0

\* The block range of the initial query.
InitialRange(fromBlock, toBlock, safe, currentBlock) ==
  IF TruthyNumber(fromBlock) /\ TruthyNumber(toBlock)
    THEN IF toBlock[1] - fromBlock[1] > safe
           THEN <<Max(fromBlock[1], toBlock[1] - safe), toBlock[1]>>
           ELSE <<fromBlock[1], toBlock[1]>>
  ELSE IF TruthyNumber(fromBlock)
    THEN <<fromBlock[1], Min(fromBlock[1] + safe, currentBlock)>>
  ELSE IF TruthyNumber(toBlock)
    THEN <<Max(0, toBlock[1] - safe), toBlock[1]>>
  ELSE <<Max(0, currentBlock - safe), currentBlock>>

\* What a log query returns: no event, some events, or an error, which
\* queryRange turns into no event.
Outcomes == {"none", "some", "error"}

Queried(range, phase, outcome) ==
  [from |-> range[1], to |-> range[2], phase |-> phase, found |-> outcome = "some"]

\* The forward loop going on until it finds events, whatever searchDepth.
ForwardContinues_PastDepth(q) == ~q.found

\* The condition of the forward loop over the chunks after the first
\* transaction.
ForwardContinues(q) == q.i < q.searchDepth /\ ~q.found

\* The condition of the backward loop over the chunks before the current
\* block.
BackwardContinues(q) == q.i <= q.searchDepth /\ ~q.found

BlockInputs == {0, 1, 5, 300, 600}

OptionalBlocks == {<<>>} \cup {<<b>> : b \in BlockInputs}

MaxBlocksInputs == {1, 250, 400}

\* What the call holds after its initial query.
Called(fromBlock, toBlock, maxBlocks, autoDiscover, searchDepth, currentBlock, outcome) ==
  LET range == InitialRange(fromBlock, toBlock, safeMaxBlocks(maxBlocks), currentBlock)
  IN [pc |-> IF outcome = "none" /\ autoDiscover THEN "history" ELSE "done",
      fromBlock |-> fromBlock, toBlock |-> toBlock, maxBlocks |-> maxBlocks,
      autoDiscover |-> autoDiscover, searchDepth |-> searchDepth,
      currentBlock |-> currentBlock, firstBlock |-> <<>>, i |-> 0,
      found |-> outcome = "some", error |-> outcome = "error",
      queries |-> <<Queried(range, "initial", outcome)>>,
      queriedRanges |-> <<range>>]

\* The call up to its initial query, for every choice of arguments, current
\* block and result of the query.
EvStart ==
  /\ query.pc = "idle"
  /\ \E fromBlock \in OptionalBlocks, toBlock \in OptionalBlocks,
        maxBlocks \in MaxBlocksInputs, autoDiscover \in BOOLEAN,
        searchDepth \in 0..MaxSearchDepth, currentBlock \in BlockInputs,
        outcome \in Outcomes :
       /\ fromBlock # <<>> /\ toBlock # <<>> => fromBlock[1] <= toBlock[1]
       /\ query' = Called(fromBlock, toBlock, maxBlocks, autoDiscover, searchDepth,
                          currentBlock, outcome)
  /\ UNCHANGED <<os, homeDir, cwd, env, files, dirs, readonly, log, run>>

\* getAssetTransfers: it throws or returns no transfer (firstBlock omitted),
\* or returns the block of the first transaction.
EvHistory(firstBlock) ==
  /\ query.pc = "history"
  /\ query' = IF firstBlock = <<>>
                THEN [query EXCEPT !.pc = "backward", !.i = 1]
                ELSE [query EXCEPT !.pc = "forward", !.i = 0, !.firstBlock = firstBlock]
  /\ UNCHANGED <<os, homeDir, cwd, env, files, dirs, readonly, log, run>>

\* The query of a discovery loop and what the loop does with its result.
Discovered(q, range, phase, outcome) ==
  [q EXCEPT !.pc = IF outcome = "some" THEN "done" ELSE phase,
            !.i = IF outcome = "some" THEN @ ELSE @ + 1,
            !.found = outcome = "some",
            !.queries = Append(@, Queried(range, phase, outcome)),
            !.queriedRanges = Append(@, range)]

\* One iteration of the forward loop, or its end.
EvForward(outcome) ==
  /\ query.pc = "forward"
  /\ LET safe == safeMaxBlocks(query.maxBlocks)
         searchStart == query.firstBlock[1] + query.i * safe
         searchEnd == Min(searchStart + safe, query.currentBlock)
     IN query' = IF ~ForwardContinues(query) \/ searchStart >= query.currentBlock
                   THEN [query EXCEPT !.pc = "backward", !.i = 1]
                   ELSE Discovered(query, <<searchStart, searchEnd>>, "forward", outcome)
  /\ UNCHANGED <<os, homeDir, cwd, env, files, dirs, readonly, log, run>>

\* One iteration of the backward loop, or its end.
EvBackward(outcome) ==
  /\ query.pc = "backward"
  /\ LET safe == safeMaxBlocks(query.maxBlocks)
         searchEnd == query.currentBlock - (query.i - 1) * safe
         searchStart == Max(0, searchEnd - safe)
         alreadyQueried == <<searchStart, searchEnd>> \in Range(query.queriedRanges)
     IN query' = IF ~BackwardContinues(query) \/ searchStart < 0 \/ searchEnd <= searchStart
                   THEN [query EXCEPT !.pc = "done"]
                 ELSE IF alreadyQueried
                   THEN [query EXCEPT !.i = @ + 1]
                 ELSE Discovered(query, <<searchStart, searchEnd>>, "backward", outcome)
  /\ UNCHANGED <<os, homeDir, cwd, env, files, dirs, readonly, log, run>>

InitEvents ==
  /\ os = "linux"
  /\ homeDir = <<"home", "u">>
  /\ cwd = <<"work", "proj">>
  /\ env = PathEnv @@ NoSecrets
  /\ log = <<>>
  /\ run = Idle
  /\ query = NoQuery
  /\ files = NoFiles
  /\ dirs = BaseDirs
  /\ readonly = {}

NextEvents ==
  \/ EvStart
  \/ \E firstBlock \in OptionalBlocks : EvHistory(firstBlock)
  \/ \E outcome \in Outcomes : EvForward(outcome)
  \/ \E outcome \in Outcomes : EvBackward(outcome)

SpecEvents == InitEvents /\ [][NextEvents]_vars

\* The steps of a call after its initial query.
EvContinue ==
  \/ \E firstBlock \in OptionalBlocks : EvHistory(firstBlock)
  \/ \E outcome \in Outcomes : EvForward(outcome)
  \/ \E outcome \in Outcomes : EvBackward(outcome)

\* Every awaited request of a call returns: a call that has started goes on.
FairSpecEvents == SpecEvents /\ WF_vars(EvContinue)

\* The same operations on a global config file that may not be written, or
\* whose directory may not be written.
InitIO ==
  /\ os = "linux"
  /\ homeDir = <<"home", "u">>
  /\ cwd = <<"work", "proj">>
  /\ env = PathEnv @@ NoSecrets
  /\ log = <<>>
  /\ run = Idle
  /\ query = NoQuery
  /\ InitFilesOf(PlatformInputs, {"global"}, TRUE)

SpecIO == InitIO /\ [][Next]_vars

----------------------------------------------------------------------------
\* Vocabulary of the properties

HasLast == Len(log) > 0

\* The operation performed last; the current state is the state it left.
Last == log[Len(log)]

LastKey == Descriptor(Last.platformId).configKey

LastFormat == Descriptor(Last.platformId).format

\* What the codec's read returns now for the file of the last operation.
ReadNow ==
  IF LastFormat = "json" THEN readJsonConfig(Last.path) ELSE readTomlConfig(Last.path)

\* What isPlatformInstalled returns now for the target of the last operation.
InstalledNow ==
  isPlatformInstalled(Last.platformId, Descriptor(Last.platformId), Last.scope).success

\* The document the file of the last operation held before it.
DocBefore == Last.before.tree

Generated(format) ==
  IF format = "json" THEN generateMcpServerEntry ELSE generateTomlMcpServerEntry

SameTarget(a, b) == a.platformId = b.platformId /\ a.scope = b.scope

IsMapping(v) == v.t = "obj"

\* A missing file, an unparseable file, or a file holding a config document
\* (a key mapping).
IsDocumentFile(content) ==
  content.kind \in {"missing", "corrupt"} \/ IsMapping(content.tree)

\* The write of the last operation's file fails in the state before it: the
\* file, the directory it would be created in, or the place its directory would
\* be created in, may not be written.
WriteFailedAt(e) ==
  \/ e.path \in readonly
  \/ e.before = Missing /\ Dirname(e.path) \in readonly
  \/ ~e.dirBefore /\ Prefixes(Dirname(e.path)) \cap readonly # {}

WriteFailed == WriteFailedAt(Last)

\* The text occurs in the value: as a string, an array element or a key, at
\* any depth.
RECURSIVE Mentions(_, _)
Mentions(v, text) ==
  \/ v.t \in {"str", "arr"} /\ \E i \in 1..Len(v.s) : v.s[i] = text
  \/ \E i \in 1..Len(v.m) : v.m[i][1] = text \/ Mentions(v.m[i][2], text)

SecretNames ==
  {"ALCHEMY_API_KEY", "ARBISCAN_API_KEY", "STYLUS_PRIVATE_KEY", "STYLUS_PRIVATE_KEY_PATH",
   "STYLUS_KEYSTORE_PATH"}

\* The values the environment gives to the server's variables.
SecretValues == {env[n] : n \in SecretNames} \ {""}

\* The last operation is an install that returned true on a file that was
\* missing, unparseable, or a document with a mapping or nothing under
\* configKey.
InstalledEntry ==
  /\ HasLast /\ Last.op = "install" /\ Last.success
  /\ \/ Last.before.kind \in {"missing", "corrupt"}
     \/ IsMapping(DocBefore) /\ (IsMapping(Get(DocBefore, LastKey))
                                    \/ ~Truthy(Get(DocBefore, LastKey)))

\* The entry under configKey."arbitrum" in the file of the last operation.
EntryNow == Get(Get(Last.after.tree, LastKey), "arbitrum")

\* The file of platform pid in the other scope than `scope`.
OtherScope(scope) == IF scope = "global" THEN "local" ELSE "global"

\* The target of the i-th operation.
Target(i) == <<log[i].platformId, log[i].scope>>

\* A wizard whose confirmation was given.
InBatch == run.command \in {"install", "uninstall"} /\ run.confirmed

\* The keys k, other than `except`, on which the containers a and b differ.
SameExcept(a, b, except) ==
  \A k \in (Keys(a.m) \cup Keys(b.m)) \ {except} : Get(a, k) = Get(b, k)

----------------------------------------------------------------------------
\* C1: for every initial content of the target file, a second install right
\* after an install of the same platform and scope leaves the content the first
\* one left, and isPlatformInstalled is true after each of the two installs.
C1_InstallTwiceInstalled ==
  /\ \A i \in 2..Len(log) :
       (log[i].op = "install" /\ log[i - 1].op = "install" /\ SameTarget(log[i], log[i - 1]))
         => log[i].after = log[i - 1].after
  /\ (HasLast /\ Last.op = "install" /\ IsDocumentFile(Last.before)) => InstalledNow

\* C2: an install on a parseable file leaves every top-level key other than
\* configKey, and every entry under configKey other than "arbitrum", with the
\* value it had; no such key is added or removed.
C2_InstallPreservesUnrelated ==
  (HasLast /\ Last.op = "install" /\ Last.before.kind = "text")
    => /\ SameExcept(DocBefore, ReadNow, LastKey)
       /\ SameExcept(Get(DocBefore, LastKey), Get(ReadNow, LastKey), "arbitrum")

C2_Witness ==
  /\ HasLast /\ Last.op = "install" /\ Last.success
  /\ Last.before.kind = "text"
  /\ Get(DocBefore, "theme") = Str("dark")
  /\ Get(Get(DocBefore, LastKey), "other") = OtherEntry
  /\ Get(Get(DocBefore, LastKey), "arbitrum") = OldEntry
  /\ Last.after # Last.before

\* C3: a successful uninstall removes configKey altogether when "arbitrum" was
\* its only entry, and otherwise removes exactly the "arbitrum" entry; every
\* sibling entry and every other top-level key keeps its value.
C3_UninstallCleansUp ==
  (HasLast /\ Last.op = "uninstall" /\ Last.success)
    => LET old == Get(DocBefore, LastKey)
           new == Get(ReadNow, LastKey)
       IN /\ SameExcept(DocBefore, ReadNow, LastKey)
          /\ IF Keys(old.m) = {"arbitrum"}
               THEN LastKey \notin Keys(ReadNow.m)
               ELSE /\ LastKey \in Keys(ReadNow.m)
                    /\ Keys(new.m) = Keys(old.m) \ {"arbitrum"}
                    /\ SameExcept(old, new, "arbitrum")

C3_Witness ==
  /\ HasLast /\ Last.op = "uninstall" /\ Last.success
  /\ Keys(Get(DocBefore, LastKey).m) = {"arbitrum"}
  /\ Get(DocBefore, "theme") = Str("dark")
  /\ ReadNow = Obj(<< <<"theme", Str("dark")>> >>)

\* C4: an install on a document whose configKey is absent or holds a value
\* that is not a mapping puts a fresh mapping there, holding the generated
\* entry under "arbitrum", writes the file and returns true.
C4_InstallReplacesNonMapping ==
  (HasLast /\ Last.op = "install" /\ Last.before.kind = "text"
     /\ IsMapping(DocBefore) /\ ~IsMapping(Get(DocBefore, LastKey)))
    => /\ Last.success
       /\ Last.after.layout = "emitted"
       /\ Get(ReadNow, LastKey) = Obj(<< <<"arbitrum", Generated(LastFormat)>> >>)

\* C5 as claimed: isPlatformInstalled is true exactly when the file exists,
\* parses, has configKey, and configKey has an "arbitrum" entry, whatever the
\* value of that entry.
C5_InstalledIffEntryExists ==
  (HasLast /\ Last.op = "isInstalled")
    => /\ ~Last.threw
       /\ Last.success <=> /\ Last.before.kind = "text"
                           /\ LastKey \in Keys(DocBefore.m)
                           /\ "arbitrum" \in Keys(Get(DocBefore, LastKey).m)

\* C5 as amended: isPlatformInstalled is true exactly when the file exists,
\* parses, holds a truthy value under configKey and that value holds a truthy
\* value under "arbitrum"; in every other case it is false, and it never throws.
C5_InstalledIffEntryTruthy ==
  (HasLast /\ Last.op = "isInstalled")
    => /\ ~Last.threw
       /\ Last.after = Last.before
       /\ Last.success <=> /\ Last.before.kind = "text"
                           /\ LastKey \in Keys(DocBefore.m)
                           /\ "arbitrum" \in Keys(Get(DocBefore, LastKey).m)
                           /\ Truthy(Get(DocBefore, LastKey))
                           /\ Truthy(Get(Get(DocBefore, LastKey), "arbitrum"))

C5_Witness ==
  /\ HasLast /\ Last.op = "isInstalled" /\ ~Last.success
  /\ Last.before.kind = "text"
  /\ Get(Get(DocBefore, LastKey), "arbitrum") = Bool("false")

\* C6: an uninstall returns true exactly when isPlatformInstalled, called on
\* the same target right before it, returned true; after an uninstall that
\* returned true isPlatformInstalled is false, and an uninstall right after a
\* successful one returns false.
C6_UninstallIffInstalled ==
  /\ \A i \in 2..Len(log) :
       (log[i].op = "uninstall" /\ SameTarget(log[i], log[i - 1]))
         => /\ log[i - 1].op = "isInstalled" => (log[i].success <=> log[i - 1].success)
            /\ (log[i - 1].op = "uninstall" /\ log[i - 1].success) => ~log[i].success
  /\ (HasLast /\ Last.op = "uninstall" /\ Last.success) => ~InstalledNow

C6_Witness ==
  /\ Len(log) = 2
  /\ log[1].op = "isInstalled" /\ log[1].success
  /\ log[2].op = "uninstall" /\ SameTarget(log[1], log[2]) /\ log[2].success

\* C7: an uninstall that returns false writes nothing: a missing file is not
\* created, nor is its directory, and an existing file keeps its content.
C7_FailedUninstallWritesNothing ==
  (HasLast /\ Last.op = "uninstall" /\ ~Last.success)
    => /\ Last.after = Last.before
       /\ Last.dirAfter = Last.dirBefore

C7_Witness ==
  /\ HasLast /\ Last.op = "uninstall" /\ ~Last.success
  /\ Last.before = Missing /\ ~Last.dirBefore
  /\ ~existsSync(Last.path) /\ Dirname(Last.path) \notin dirs

\* C8: both codecs' read returns the empty document for a file that does not
\* exist and for a file whose content does not parse.
C8_ReadMissingOrCorruptIsEmpty ==
  \A pid \in DOMAIN platforms, scope \in Scopes :
    LET path == getConfigPath(platforms[pid], scope)
    IN FileAt(path).kind \in {"missing", "corrupt"}
         => /\ readJsonConfig(path) = EmptyObject
            /\ readTomlConfig(path) = EmptyObject

C8_Witness ==
  /\ HasLast /\ Last.op = "isInstalled" /\ LastFormat = "toml"
  /\ FileAt(Last.path) = Corrupt
  /\ readTomlConfig(Last.path) = EmptyObject

\* C9: an install on a missing file (its directory missing too) or on an
\* unparseable file succeeds, creates the directories and leaves a file that
\* parses to exactly {configKey: {"arbitrum": <generated entry>}}.
C9_InstallOnMissingOrCorrupt ==
  (HasLast /\ Last.op = "install" /\ Last.before.kind \in {"missing", "corrupt"})
    => /\ Last.success
       /\ Prefixes(Dirname(Last.path)) \subseteq dirs
       /\ existsSync(Last.path)
       /\ ~ParseThrows(files[Last.path])
       /\ ReadNow = Obj(<< <<LastKey, Obj(<< <<"arbitrum", Generated(LastFormat)>> >>)>> >>)

C9_Witness ==
  /\ HasLast /\ Last.op = "install" /\ Last.success
  /\ Last.before = Missing /\ ~Last.dirBefore

\* C10: after an install that returned true, the "arbitrum" entry under
\* configKey is exactly the generated entry, whatever entry was there before.
C10_InstallOverwritesEntry ==
  (HasLast /\ Last.op = "install" /\ Last.success /\ IsDocumentFile(Last.before))
    => Get(Get(ReadNow, LastKey), "arbitrum") = Generated(LastFormat)

----------------------------------------------------------------------------
C13_WriteErrorReported ==
  HasLast /\ Last.op \in {"install", "uninstall"} /\ Last.path \in readonly
          /\ Last.before.kind = "text" /\ IsMapping(DocBefore)
          /\ IsMapping(Get(DocBefore, LastKey))
          /\ (Last.op = "uninstall" => Truthy(Get(Get(DocBefore, LastKey), "arbitrum")))
    => ~Last.success /\ Last.error # ""

\* The descriptor of a log entry has no global template for the OS.
NoGlobalTemplate(e) == Descriptor(e.platformId).global[getPlatform] = <<>>

\* C12 (as stated): no public operation of the platform layer throws, whatever
\* the descriptor, the scope and the file system.
C12_OperationsTotal == \A i \in 1..Len(log) : ~log[i].threw

\* C12 (amended): a public operation throws exactly when it is given the global
\* scope and a descriptor with no global template for the OS; in every other
\* case it returns, isPlatformDetected included, and isPlatformInstalled
\* returns false on a missing file, an unparseable file and a file whose
\* content is not a mapping.
C12_OperationsTotalWithTemplate ==
  \A i \in 1..Len(log) :
    /\ log[i].threw <=> log[i].scope = "global" /\ NoGlobalTemplate(log[i])
    /\ log[i].op = "isInstalled" /\ ~log[i].threw
         /\ (log[i].before.kind \in {"missing", "corrupt"} \/ ~IsMapping(log[i].before.tree))
         => ~log[i].success

C12_Witness ==
  /\ Len(log) = 2
  /\ log[1].op = "isInstalled" /\ log[1].platformId = "fakeclient"
  /\ log[1].scope = "local" /\ log[1].before.kind = "corrupt"
  /\ ~log[1].threw /\ ~log[1].success
  /\ log[2].op = "isDetected" /\ ~log[2].threw

\* C14: an install or uninstall in the global scope of a descriptor with no
\* global template for the OS raises the "Unsupported platform" error out of
\* the operation and writes no file and creates no directory.
C14_NoTemplateRaises ==
  \A i \in 1..Len(log) :
    log[i].op \in {"install", "uninstall"} /\ log[i].scope = "global"
      /\ NoGlobalTemplate(log[i])
    => /\ log[i].threw
       /\ log[i].error = "Unsupported platform"
       /\ ~log[i].wrote
       /\ log[i].dirAfter = log[i].dirBefore

C14_Witness ==
  /\ Len(log) = 2
  /\ log[1].op = "install" /\ log[1].platformId = "fakeclient"
  /\ log[1].scope = "global" /\ log[1].threw
  /\ log[2].op = "install" /\ log[2].platformId = "fakeclient"
  /\ log[2].scope = "local" /\ log[2].success

\* C15: a batch processes every selected platform exactly once, in selection
\* order; a platform that fails changes no file and the platforms after it
\* are processed all the same.
C15_BatchProcessesAllInOrder ==
  InBatch =>
    /\ \A i, j \in 1..Len(run.selected) : i # j => run.selected[i] # run.selected[j]
    /\ Len(log) <= Len(run.selected)
    /\ \A i \in 1..Len(log) : Target(i) = run.selected[i] /\ log[i].op = run.command
    /\ run.queue = SubSeq(run.selected, Len(log) + 1, Len(run.selected))
    /\ run.pc = "done" => Len(log) = Len(run.selected)
    /\ \A i \in 1..Len(log) : ~log[i].success => ~log[i].wrote
    /\ run.successCount = Cardinality({i \in 1..Len(log) : log[i].success})

C15_Witness ==
  /\ InBatch /\ run.pc = "done" /\ Len(run.selected) = 2 /\ Len(log) = 2
  /\ ~log[1].success /\ log[2].success /\ log[2].wrote

\* C19: detection never gates installation: whatever isPlatformDetected
\* returns, the install wizard offers every platform of the registry, the
\* uninstall wizard offers exactly the installed targets, the platforms
\* processed are the ones selected, and an install succeeds exactly when its
\* file can be written.
C19_DetectionNeverGates ==
  /\ run.command = "install" => run.offered = getPlatformIds
  /\ run.command = "uninstall" /\ Len(log) = 0 => run.offered = installedPlatforms
  /\ InBatch => \A i \in 1..Len(log) : Target(i) = run.selected[i]
  /\ InBatch /\ run.command = "install" =>
       \A i \in 1..Len(log) : log[i].success <=> ~WriteFailedAt(log[i])

C19_Witness ==
  /\ InBatch /\ run.command = "install" /\ run.pc = "done" /\ Len(log) = 2
  /\ log[1].platformId \in run.detected /\ log[1].success
  /\ log[2].platformId \notin run.detected /\ log[2].success

\* C20: the program exits with 1 for an unknown command, and the install and
\* the uninstall command end with exit status 0 whatever the result of each
\* platform.
C20_ExitStatus ==
  run.pc = "done" =>
    /\ run.command \notin KnownCommands => run.exitCode = 1
    /\ run.command \in {"install", "uninstall"} /\ (\A i \in 1..Len(log) : ~log[i].threw)
         => run.exitCode = 0

C20_Witness ==
  /\ InBatch /\ run.pc = "done" /\ Len(log) = 1
  /\ ~log[1].success /\ run.successCount = 0 /\ run.exitCode = 0

\* C16: the content install writes does not depend on the environment: under
\* every value of ALCHEMY_API_KEY, ARBISCAN_API_KEY, STYLUS_PRIVATE_KEY,
\* STYLUS_PRIVATE_KEY_PATH and STYLUS_KEYSTORE_PATH the entry written is the
\* same fixed entry of the format, and none of the values occurs in the entry;
\* the TOML entry holds the names of the variables.
C16_NoSecretInEntry ==
  InstalledEntry =>
    /\ EntryNow = Generated(LastFormat)
    /\ \A secret \in SecretValues : ~Mentions(EntryNow, secret)
    /\ LastFormat = "toml" => \A n \in SecretNames : Mentions(EntryNow, n)
    /\ LastFormat = "json" => \A n \in SecretNames : ~Mentions(EntryNow, n)

C16_Witness ==
  /\ InstalledEntry /\ Len(log) = 2
  /\ env.STYLUS_PRIVATE_KEY # "" /\ env.ALCHEMY_API_KEY # ""
  /\ log[1].op = "install" /\ log[1].platformId = "cursor" /\ log[1].success
  /\ Last.platformId = "codex"

\* C17: the generated entry is fixed per format. For every JSON platform it
\* is exactly command "npx" and args ["-y", "arbitrum-mcp-tools", "serve"],
\* with no env, enabled or env_vars field; for the TOML platform it has the
\* same command and args, then enabled = true and env_vars listing the five
\* variable names in order; exactly one registered platform gets env_vars.
C17_EntryFixedPerFormat ==
  LET jsonEntry == Obj(<< <<"command", Str("npx")>>,
                          <<"args", Arr(<<"-y", "arbitrum-mcp-tools", "serve">>)>> >>)
      tomlEntry == Obj(jsonEntry.m \o
                       << <<"enabled", Bool("true")>>,
                          <<"env_vars", Arr(<<"ALCHEMY_API_KEY", "ARBISCAN_API_KEY",
                                              "STYLUS_PRIVATE_KEY", "STYLUS_PRIVATE_KEY_PATH",
                                              "STYLUS_KEYSTORE_PATH">>)>> >>)
      \* what an install of pid writes from an initial state, when it succeeds
      \* on a file it creates
      Written(pid, scope) ==
        LET r == installToPlatform(pid, platforms[pid], scope)
        IN Get(Get(r.files[r.path].tree, platforms[pid].configKey), "arbitrum")
      Fresh(pid, scope) ==
        /\ ~existsSync(getConfigPath(platforms[pid], scope))
        /\ installToPlatform(pid, platforms[pid], scope).success
  IN /\ InstalledEntry =>
          /\ LastFormat = "json" => EntryNow = jsonEntry
          /\ LastFormat = "toml" => EntryNow = tomlEntry
     /\ \A pid \in Range(getPlatformIds), scope \in Scopes :
          Len(log) = 0 /\ Fresh(pid, scope) =>
            /\ Written(pid, scope) = IF platforms[pid].format = "json" THEN jsonEntry
                                                                        ELSE tomlEntry
            /\ "env_vars" \in Keys(Written(pid, scope).m) <=> pid = "codex"
     /\ Cardinality({pid \in Range(getPlatformIds) :
                       "env_vars" \in Keys(Generated(platforms[pid].format).m)}) = 1

C17_Witness ==
  /\ InstalledEntry /\ Len(log) = 2
  /\ log[1].op = "install" /\ log[1].platformId = "codex" /\ log[1].success
  /\ log[1].before = Missing
  /\ Last.platformId = "cursor" /\ IsMapping(DocBefore)

\* The last operation is an install or uninstall, and the one before it asked
\* isPlatformInstalled for the same platform in the other scope.
ProbedOtherScope ==
  /\ Len(log) = 2
  /\ Last.op \in {"install", "uninstall"}
  /\ log[1].op = "isInstalled" /\ log[1].platformId = Last.platformId
  /\ log[1].scope = OtherScope(Last.scope)

\* The other scope's file and its isPlatformInstalled result are what they
\* were before the last operation.
OtherScopeUnchanged ==
  /\ FileAt(log[1].path) = log[1].before
  /\ isPlatformInstalled(Last.platformId, Descriptor(Last.platformId), log[1].scope).success
       = log[1].success

\* C18 (as stated): for every platform, home directory and working
\* directory, an install or uninstall in one scope leaves the other scope's
\* config file and its isPlatformInstalled result unchanged.
C18_ScopesIsolated == ProbedOtherScope => OtherScopeUnchanged

\* C18 (amended): a local operation works on the file at cwd joined with the
\* local template, a global one on the file at the resolved global template;
\* when these are two different files, an install or uninstall in one scope
\* leaves the other scope's file and its isPlatformInstalled result unchanged.
\* They are the same file when cwd is the home directory and the local
\* template repeats the global one.
C18_ScopesIsolatedWhenDistinct ==
  /\ \A i \in 1..Len(log) :
       log[i].path = IF log[i].scope = "local"
                       THEN Normalize(cwd \o Descriptor(log[i].platformId).local)
                       ELSE resolvePath(Descriptor(log[i].platformId).global[getPlatform])
  /\ ProbedOtherScope /\ log[1].path # Last.path => OtherScopeUnchanged
  /\ ProbedOtherScope /\ log[1].path = Last.path =>
       cwd = homeDir /\ Last.platformId = "cursor"

C18_Witness ==
  /\ ProbedOtherScope /\ cwd = homeDir /\ Last.platformId = "windsurf"
  /\ Last.op = "uninstall" /\ Last.success /\ Last.scope = "local"
  /\ log[1].path # Last.path

\* C23: every platform of the registry has a non-empty global template for
\* darwin, win32 and linux and a non-empty local template, so getConfigPath
\* succeeds for every registered platform on every OS, an OS other than the
\* three being handled as linux.
C23_RegistryTemplatesComplete ==
  /\ \A pid \in Range(getPlatformIds) :
       /\ DOMAIN platforms[pid].global = {"darwin", "win32", "linux"}
       /\ \A o \in {"darwin", "win32", "linux"} : platforms[pid].global[o] # <<>>
       /\ platforms[pid].local # <<>>
       /\ ~GlobalPathThrows(platforms[pid].global)
  /\ getPlatform \in {"darwin", "win32", "linux"}
  /\ os \notin {"darwin", "win32"} => getPlatform = "linux"
  /\ \A i \in 1..Len(log) :
       log[i].op = "getConfigPath" => ~log[i].threw /\ log[i].path # <<>>

C23_Witness ==
  /\ os = "freebsd" /\ Len(log) = 2
  /\ log[1].op = "getConfigPath" /\ log[1].platformId = "claude-desktop"
  /\ log[1].scope = "global"
  /\ log[1].path = <<"home", "u", ".config", "Claude", "claude_desktop_config.json">>
  /\ log[2].op = "getConfigPath" /\ log[2].platformId = "codex" /\ ~log[2].threw

\* C24: the registry holds 8 platforms, Claude Desktop, Claude Code, Cursor,
\* Windsurf, VS Code, Gemini CLI and Antigravity with the JSON format and
\* OpenAI Codex with TOML, and getPlatformIds returns all of them: the install
\* wizard, which offers what getPlatformIds returns, offers these 8.
C24_EightPlatforms ==
  run.command = "install" =>
    /\ Len(run.offered) = 8
    /\ Range(run.offered) =
         {"claude-desktop", "claude-code", "cursor", "windsurf", "vscode", "gemini",
          "antigravity", "codex"}
    /\ \A pid \in Range(run.offered) :
         platforms[pid].format = IF pid = "codex" THEN "toml" ELSE "json"

RECURSIVE Flatten(_)
Flatten(seqs) == IF seqs = <<>> THEN <<>> ELSE Head(seqs) \o Flatten(Tail(seqs))

\* What the segment at position i of a template stands for.
Substituted(pathTemplate, i) ==
  LET seg == pathTemplate[i]
  IN IF i = 1 /\ seg = "~" THEN homeDir
     ELSE IF os = "win32" /\ seg = "%APPDATA%" THEN env.APPDATA
     ELSE IF os = "win32" /\ seg = "%USERPROFILE%"
       THEN (IF env.USERPROFILE # <<>> THEN env.USERPROFILE ELSE homeDir)
     ELSE IF os = "win32" /\ seg = "%LOCALAPPDATA%" THEN env.LOCALAPPDATA
     ELSE IF seg \in {"", "."} THEN <<>>
     ELSE <<seg>>

\* C25: resolvePath replaces %APPDATA%, %USERPROFILE% and %LOCALAPPDATA% on
\* Windows only, by the value of the variable, an unset USERPROFILE by the
\* home directory and an unset APPDATA or LOCALAPPDATA by the empty string; on
\* every other OS the placeholders stay; a leading ~ becomes the home
\* directory on every OS.
C25_ResolvePath ==
  /\ \A t \in TemplateInputs :
       resolvePath(t) = Flatten([i \in 1..Len(t) |-> Substituted(t, i)])
  /\ HasLast /\ Last.op = "resolvePath" =>
       \E t \in TemplateInputs :
         Last.path = Flatten([i \in 1..Len(t) |-> Substituted(t, i)])

C25_Witness ==
  /\ os = "win32" /\ env.USERPROFILE = <<>> /\ env.LOCALAPPDATA # <<>> /\ Len(log) = 2
  /\ log[1].op = "resolvePath"
  /\ log[1].path = <<"home", "u", ".codeium", "windsurf", "mcp_config.json">>
  /\ log[2].op = "resolvePath"
  /\ log[2].path = <<"home", "u", "C:", "Users", "u", "AppData", "Local", "x">>

\* C21: the exit status of a batch tells whether at least one platform
\* succeeded: a batch with no success ends with another status than a batch
\* with a success, which ends with 0.
C21_ExitStatusReflectsSuccess ==
  InBatch /\ run.pc = "done" /\ Len(log) > 0 =>
    /\ run.successCount > 0 => run.exitCode = 0
    /\ run.successCount = 0 => run.exitCode # 0

\* C22: install, uninstall, list and serve and the flags --help, -h,
\* --version and -v are known to the dispatcher: none of them ends on the
\* unknown-command path with exit status 1.
C22_ServeIsKnown ==
  /\ run.pc = "done"
  /\ run.command \in {"install", "uninstall", "list", "serve", "--help", "-h",
                        "--version", "-v"}
  => run.exitCode = 0

\* The queries a call issued in a phase.
QueriesOf(phase) == {k \in 1..Len(query.queries) : query.queries[k].phase = phase}

C26_Bounded ==
  /\ Len(query.queries) <= 1 + 2 * query.searchDepth
  /\ Cardinality(QueriesOf("initial")) <= 1
  /\ Cardinality(QueriesOf("forward")) <= query.searchDepth
  /\ Cardinality(QueriesOf("backward")) <= query.searchDepth
  /\ query.i <= query.searchDepth + 1
  /\ Len(query.queries) > 1 =>
       /\ query.autoDiscover /\ ~query.error /\ ~query.queries[1].found
  /\ \A k \in 1..Len(query.queries) : query.queries[k].found => k = Len(query.queries)
  /\ query.found => query.pc = "done"

\* C26: the auto-discovery of getContractEvents is bounded and terminates: a
\* call issues at most 1 + 2 * searchDepth log queries, the initial one, at
\* most searchDepth forward and at most searchDepth backward; discovery
\* starts only when the initial query found no event without error and
\* autoDiscover is true; no query follows the one that found events; and
\* every call reaches its end.
C26_DiscoveryBoundedAndTerminates ==
  []C26_Bounded /\ (query.pc # "idle" ~> query.pc = "done")

C26_Witness ==
  /\ query.pc = "done" /\ query.searchDepth = 2 /\ Len(query.queries) = 5
  /\ query.queries[5].found

\* C27: every block range queried, the initial one and those of the
\* discovery, has from <= to and spans at most maxBlocks blocks.
C27_RangesWellFormed ==
  \A k \in 1..Len(query.queries) :
    /\ query.queries[k].from <= query.queries[k].to
    /\ query.queries[k].to - query.queries[k].from <= query.maxBlocks

\* C28: with fromBlock given and toBlock omitted the initial range starts at
\* fromBlock, for fromBlock = 0 too; with both given and a range that fits
\* in maxBlocks the initial range is exactly fromBlock to toBlock.
C28_InitialRangeFromFromBlock ==
  query.pc # "idle" =>
    /\ query.fromBlock # <<>> /\ query.toBlock = <<>> =>
         query.queries[1].from = query.fromBlock[1]
    /\ query.fromBlock # <<>> /\ query.toBlock # <<>>
         /\ query.toBlock[1] - query.fromBlock[1] <= query.maxBlocks =>
         /\ query.queries[1].from = query.fromBlock[1]
         /\ query.queries[1].to = query.toBlock[1]

\* The i-th operation is an uninstall that follows an install of the same
\* platform and scope on a file holding a config document.
RoundTrip(i) ==
  /\ i \in 2..Len(log)
  /\ log[i - 1].op = "install" /\ log[i].op = "uninstall"
  /\ SameTarget(log[i - 1], log[i])
  /\ log[i - 1].before.kind = "text" /\ IsMapping(log[i - 1].before.tree)

\* What the document before the round trip ending at i held under configKey.
ServersBefore(i) ==
  Get(log[i - 1].before.tree, Descriptor(log[i].platformId).configKey)

\* The file after the i-th operation parses to the document `doc`.
LeftDocument(i, doc) == log[i].after.kind = "text" /\ log[i].after.tree = doc

\* C29: on a document with no "arbitrum" entry under configKey (configKey
\* absent, an empty mapping, or a mapping with other entries) an install
\* followed by an uninstall leaves a file that parses to the original document.
C29_UninstallUndoesInstall ==
  \A i \in 2..Len(log) :
    (/\ RoundTrip(i)
     /\ \/ ServersBefore(i) = Undefined
        \/ IsMapping(ServersBefore(i)) /\ "arbitrum" \notin Keys(ServersBefore(i).m))
      => LeftDocument(i, log[i - 1].before.tree)

\* C29 as the code has it: the round trip restores a document whose configKey
\* is absent or holds a mapping with other entries; from an empty mapping
\* under configKey it leaves the document without configKey.
C29_UninstallUndoesInstallUnlessEmpty ==
  \A i \in 2..Len(log) :
    RoundTrip(i) =>
      LET doc == log[i - 1].before.tree
          key == Descriptor(log[i].platformId).configKey
          done == log[i - 1].success /\ log[i].success
      IN /\ (\/ ServersBefore(i) = Undefined
             \/ /\ IsMapping(ServersBefore(i))
                /\ Keys(ServersBefore(i).m) \ {"arbitrum"} # {}
                /\ "arbitrum" \notin Keys(ServersBefore(i).m))
              => done /\ LeftDocument(i, doc)
         /\ ServersBefore(i) = Obj(<<>>)
              => done /\ LeftDocument(i, Delete(doc, key))

C29_Witness ==
  /\ RoundTrip(2) /\ log[1].success /\ log[2].success
  /\ log[1].before.tree = Obj(<< <<"theme", Str("dark")>> >>)
  /\ log[1].after.tree # log[1].before.tree
  /\ LeftDocument(2, log[1].before.tree)

\* C30: in uninstallCommand every installation the wizard found installed and
\* the user selected, all of them with "Select All", is removed successfully:
\* uninstallFromPlatform returns success for each item of the selection, in
\* every working directory, as long as every file can be written.
C30_SelectedAllRemoved ==
  (run.command = "uninstall" /\ run.confirmed /\ readonly = {})
    => /\ Range(run.selected) \subseteq Range(run.offered)
       /\ \A i \in 1..Len(log) : log[i].success
       /\ run.failCount = 0

====
